---- MODULE Spec2Model ----
(***************************************************************************)
(* AC_WeatherVane: the weathervane yaw controller of                       *)
(* libraries/AC_AttitudeControl/AC_WeatherVane.cpp.                        *)
(*                                                                         *)
(* The controller's arithmetic is single-precision (float, 0.98f, fabsf).  *)
(* A float is modelled as a record [s, e, m] of value (-1)^s * m * 2^e     *)
(* with 2^23 <= m < 2^24 (IEEE-754 binary32, round to nearest even, each   *)
(* operation rounded on its own), or F32Zero.  Subnormals, infinities and  *)
(* the sign of zero are outside the magnitudes the model reaches.          *)
(***************************************************************************)
EXTENDS Integers, Sequences, FiniteSets, TLC

----------------------------------------------------------------------------
(* binary32 arithmetic *)

F32Zero == [s |-> 0, e |-> 0, m |-> 0]

\* the element of a set of one element: an operand bound through such a set
\* is evaluated once, however often the operation reads it
Only(S) == CHOOSE v \in S : TRUE

\* number of significant bits of x, 0 < x < 2^30
BitLen(x) == CHOOSE L \in 1..30 : x \div (2^(L-1)) = 1

\* (-1)^s * (x + f) * 2^e rounded to nearest even, where 0 <= x < 2^30 and
\* 0 < f < 1 iff sticky
F32RoundBits(s, e, x, sticky, L) ==
    IF L <= 24 THEN [s |-> s, e |-> e - (24 - L), m |-> x * 2^(24 - L)]
    ELSE LET sh   == L - 24
             q    == x \div (2^sh)
             r    == x % (2^sh)
             half == 2^(sh - 1)
             up   == r > half \/ (r = half /\ (sticky \/ q % 2 = 1))
             q1   == IF up THEN q + 1 ELSE q
         IN  IF q1 = 2^24 THEN [s |-> s, e |-> e + sh + 1, m |-> 2^23]
             ELSE [s |-> s, e |-> e + sh, m |-> q1]

F32Round(s, e, x, sticky) ==
    Only({IF x1 = 0 THEN F32Zero
          ELSE F32RoundBits(s1, e1, x1, st1, BitLen(x1)) :
          s1 \in {s}, e1 \in {e}, x1 \in {x}, st1 \in {sticky}})

F32FromInt(i) == F32Round(IF i < 0 THEN 1 ELSE 0, 0, IF i < 0 THEN -i ELSE i, FALSE)

F32Neg(a) == IF a.m = 0 THEN a ELSE [a EXCEPT !.s = 1 - a.s]

F32Abs(a) == [a EXCEPT !.s = 0]

\* |a| < |b|
F32MagLt(a, b) ==
    IF b.m = 0 THEN FALSE
    ELSE IF a.m = 0 THEN TRUE
    ELSE a.e < b.e \/ (a.e = b.e /\ a.m < b.m)

\* a < b
F32Lt(a, b) ==
    IF a.s = 1 /\ b.s = 0 THEN TRUE
    ELSE IF a.s = 0 /\ b.s = 1 THEN FALSE
    ELSE IF a.s = 0 THEN F32MagLt(a, b)
    ELSE F32MagLt(b, a)

\* a * b: the 48-bit product of the significands in 12-bit limbs
F32MulExact(a, b) ==
    IF a.m = 0 \/ b.m = 0 THEN F32Zero
    ELSE LET ah  == a.m \div 4096
             al  == a.m % 4096
             bh  == b.m \div 4096
             bl  == b.m % 4096
             mid == ah * bl + al * bh
             los == al * bl + (mid % 4096) * 4096
             lo  == los % 16777216
             hi  == ah * bh + (mid \div 4096) + (los \div 16777216)
         IN  F32Round((a.s + b.s) % 2, a.e + b.e + 21,
                      hi * 8 + (lo \div 2097152), lo % 2097152 # 0)

F32Mul(a, b) == Only({F32MulExact(a1, b1) : a1 \in {a}, b1 \in {b}})

\* a + b for |a| >= |b|, three guard bits and a sticky bit
F32AddOrdered(a, b) ==
    IF b.m = 0 THEN a
    ELSE LET d   == a.e - b.e
             xa  == a.m * 8
             xb  == IF d > 27 THEN 0 ELSE (b.m * 8) \div (2^d)
             st  == IF d > 27 THEN TRUE ELSE (b.m * 8) % (2^d) # 0
         IN  IF a.s = b.s THEN F32Round(a.s, a.e - 3, xa + xb, st)
             ELSE IF st THEN F32Round(a.s, a.e - 3, xa - xb - 1, TRUE)
             ELSE F32Round(a.s, a.e - 3, xa - xb, FALSE)

F32Add(a, b) ==
    Only({IF F32MagLt(a1, b1) THEN F32AddOrdered(b1, a1) ELSE F32AddOrdered(a1, b1) :
          a1 \in {a}, b1 \in {b}})


----------------------------------------------------------------------------
(* constants of the source *)

\* enum class Direction and the values of the ENABLE parameter
OFF == 0
NOSE_IN == 1
NOSE_OR_TAIL_IN == 2
SIDE_IN == 3

\* "no input from pilot in last 3 seconds" and the "2 second buffer"
PilotInputHoldMs == 3000
ActivateDelayMs == 2000

\* the watchdog of section 4.6 of the specification: the gap between two
\* invocations that counts as a discontinuity
WatchdogGapMs == 5000

\* 0.98f, 0.02f, 0.01f, 100.0f
F32_0_98 == [s |-> 0, e |-> -24, m |-> 16441672]
F32_0_02 == [s |-> 0, e |-> -29, m |-> 10737418]
F32_0_01 == [s |-> 0, e |-> -30, m |-> 10737418]
F32_100 == [s |-> 0, e |-> -17, m |-> 13107200]

\* the defaults of var_info: GAIN 0.5, ANG_MIN 1, HGT_MIN 2, VXY_MAX 2.0,
\* VZ_MAX 1.0
DefaultParams ==
    [gain |-> [s |-> 0, e |-> -24, m |-> 8388608],
     min_dz_ang_deg |-> [s |-> 0, e |-> -23, m |-> 8388608],
     min_height |-> 2,
     max_vel_xy |-> [s |-> 0, e |-> -22, m |-> 8388608],
     max_vel_z |-> [s |-> 0, e |-> -23, m |-> 8388608]]

----------------------------------------------------------------------------
(* bounds of the model *)

\* AP_HAL::millis() is a uint32_t counter; the model keeps the unsigned
\* wrapping subtraction and lets the counter advance in steps of StepMs and
\* wrap after WrapSteps steps
StepMs == 1000
WrapSteps == 5
MillisWrap == WrapSteps * StepMs

\* calls of get_yaw_rate_cds between two resets
MaxCycles == 2

Directions == {OFF, NOSE_IN, NOSE_OR_TAIL_IN, SIDE_IN}

\* pilot_yaw, roll_cdeg, pitch_cdeg of a cycle
PilotInputs == {0, 250}
RollInputs == {-300, 50}
PitchInputs == {-300}

\* what the estimator and the terrain service report in a cycle:
\* get_altitude() and get_speed_xy(), get_velocity_z() in cm and cm/s,
\* terrain_ok: the terrain singleton exists, is enabled and
\* height_above_terrain() succeeded with terr_height (m)
Env(alt, vxy, vz, tok, th) ==
    [altitude |-> F32FromInt(alt), speed_xy |-> F32FromInt(vxy),
     velocity_z |-> F32FromInt(vz), terrain_ok |-> tok,
     terr_height |-> F32FromInt(th)]

EnvInputs ==
    {Env(200, 200, -100, FALSE, 0),   \* every threshold met exactly
     Env(199, 0, 0, FALSE, 0),        \* below HGT_MIN above home
     Env(199, 0, 0, TRUE, 2),         \* terrain height reaches HGT_MIN
     Env(300, 0, 0, TRUE, 1),         \* terrain height below, home height above
     Env(300, 201, 0, FALSE, 0),      \* ground speed above VXY_MAX
     Env(300, 0, -101, FALSE, 0),     \* descent above VZ_MAX
     Env(300, 0, 101, FALSE, 0)}      \* climb above VZ_MAX

\* the longest pause between two operations, in steps of the counter
MaxPauseSteps == 6

\* the cycles of one activation when the slew is followed to its end, and the
\* attitude held through them: a roll of 1.06 degrees, level in pitch, no
\* pilot input, every condition of the gate met
MaxSlewCycles == 700
SlewRollInputs == {106}
SlewPitchInputs == {0}
SlewEnvInputs == {Env(300, 0, 0, FALSE, 0)}

\* get_yaw_rate_cds called on its own: the calls between two resets, the
\* attitudes around the deadzone and at the ends of int16_t, and the
\* parameters GAIN (in quarters) and ANG_MIN (in half degrees), every other
\* parameter at its default
MaxDemandCalls == 2
DemandRollInputs == {-32768, -99, 0, 100, 101}
DemandPitchInputs == {-150, 0, 100, 101}
DemandParamChoices == [gain_q : {2, 3}, dz_half : {0, 2, 3}]

DemandParams(p) ==
    [DefaultParams EXCEPT !.gain = F32Round(0, -2, p.gain_q, FALSE),
                          !.min_dz_ang_deg = F32Round(0, -1, p.dz_half, FALSE)]

\* should_weathervane called on its own: the parameters with each limit
\* switched off in turn, and what the estimator and the terrain service
\* report around each limit; the last two speeds are the floats next above
\* 200 and 100 cm/s
GateParamChoices ==
    {DefaultParams,
     [DefaultParams EXCEPT !.min_height = 0],
     [DefaultParams EXCEPT !.max_vel_xy = F32Zero],
     [DefaultParams EXCEPT !.max_vel_z = F32Zero]}

GateEnvInputs ==
    {Env(300, 0, 0, FALSE, 0),
     Env(200, 200, -100, FALSE, 0),
     Env(199, 0, 0, FALSE, 0),
     Env(199, 0, 0, TRUE, 2),
     Env(199, 0, 0, TRUE, 1),
     Env(300, 0, 0, TRUE, 1),
     Env(300, 201, 0, FALSE, 0),
     Env(300, 0, -101, FALSE, 0),
     Env(300, 0, 101, FALSE, 0),
     [Env(300, 0, 0, FALSE, 0) EXCEPT !.speed_xy = [s |-> 0, e |-> -16, m |-> 13107201]],
     [Env(300, 0, 0, FALSE, 0) EXCEPT !.velocity_z = [s |-> 1, e |-> -17, m |-> 13107201]]}

----------------------------------------------------------------------------
(* state *)

VARIABLES
    now,                    \* AP_HAL::millis()
    _direction, params,     \* the AP_Param values
    last_pilot_input_ms, last_output, should_relax, active_msg_sent,
    first_activate_ms,      \* the controller's fields
    call,                   \* the last cycle, pause or reset and what it returned
    cycles,                 \* get_yaw_rate_cds calls since the last reset
    pilot_age,              \* ms since a gate evaluation recorded pilot input, up to PilotInputHoldMs
    pass_age                \* ms since conditions 1-6 began to pass on every evaluation, up to ActivateDelayMs, -1: not passing

vars == <<now, _direction, params, last_pilot_input_ms, last_output,
          should_relax, active_msg_sent, first_activate_ms, call, cycles,
          pilot_age, pass_age>>

\* the controller's fields as one value
Self == [last_pilot_input_ms |-> last_pilot_input_ms,
         last_output |-> last_output,
         should_relax |-> should_relax,
         active_msg_sent |-> active_msg_sent,
         first_activate_ms |-> first_activate_ms]

Min(a, b) == IF a < b THEN a ELSE b

\* a - b in the counter's unsigned arithmetic
MillisSub(a, b) == (a - b + MillisWrap) % MillisWrap

----------------------------------------------------------------------------
(* AC_WeatherVane *)

get_direction == _direction

\* reset() without the clearing of first_activate_ms: C8 rests on reset()
\* clearing each of the four fields
reset_KeepsLatch(st) == [st EXCEPT !.last_output = F32Zero,
                                   !.active_msg_sent = FALSE,
                                   !.should_relax = FALSE]

reset(st) == [st EXCEPT !.last_output = F32Zero,
                        !.active_msg_sent = FALSE,
                        !.should_relax = FALSE,
                        !.first_activate_ms = 0]

below_min_height(env) ==
    IF params.min_height <= 0 THEN FALSE
    ELSE IF env.terrain_ok
            /\ ~F32Lt(env.terr_height, F32FromInt(params.min_height)) THEN FALSE
    ELSE IF ~F32Lt(F32Mul(env.altitude, F32_0_01), F32FromInt(params.min_height))
         THEN FALSE
    ELSE TRUE

\* the conditions without the check of the direction: C1 rests on that check
GateStep_NoOffCheck(st, pilot_yaw, env, t) ==
    IF pilot_yaw # 0 THEN 2
    ELSE IF MillisSub(t, st.last_pilot_input_ms) < PilotInputHoldMs THEN 3
    ELSE IF below_min_height(env) THEN 4
    ELSE IF F32Lt(F32Zero, params.max_vel_xy)
            /\ F32Lt(params.max_vel_xy, F32Mul(env.speed_xy, F32_0_01)) THEN 5
    ELSE IF F32Lt(F32Zero, params.max_vel_z)
            /\ F32Lt(params.max_vel_z, F32Mul(F32Abs(env.velocity_z), F32_0_01)) THEN 6
    ELSE LET first == IF st.first_activate_ms = 0 THEN t ELSE st.first_activate_ms
         IN  IF MillisSub(t, first) < ActivateDelayMs THEN 7 ELSE 8

\* the conditions with a pilot hold of 2 seconds: C2 rests on the 3 seconds
GateStep_ShortHold(st, pilot_yaw, env, t) ==
    IF get_direction = OFF THEN 1
    ELSE IF pilot_yaw # 0 THEN 2
    ELSE IF MillisSub(t, st.last_pilot_input_ms) < ActivateDelayMs THEN 3
    ELSE IF below_min_height(env) THEN 4
    ELSE IF F32Lt(F32Zero, params.max_vel_xy)
            /\ F32Lt(params.max_vel_xy, F32Mul(env.speed_xy, F32_0_01)) THEN 5
    ELSE IF F32Lt(F32Zero, params.max_vel_z)
            /\ F32Lt(params.max_vel_z, F32Mul(F32Abs(env.velocity_z), F32_0_01)) THEN 6
    ELSE LET first == IF st.first_activate_ms = 0 THEN t ELSE st.first_activate_ms
         IN  IF MillisSub(t, first) < ActivateDelayMs THEN 7 ELSE 8

\* the first of the conditions of should_weathervane that ends the call:
\* 1..6 disqualify and reset, 7 is the 2 second buffer, 8 allows;
\* t is what AP_HAL::millis() returns in the call
GateStep(st, pilot_yaw, env, t) ==
    IF get_direction = OFF THEN 1
    ELSE IF pilot_yaw # 0 THEN 2
    ELSE IF MillisSub(t, st.last_pilot_input_ms) < PilotInputHoldMs THEN 3
    ELSE IF below_min_height(env) THEN 4
    ELSE IF F32Lt(F32Zero, params.max_vel_xy)
            /\ F32Lt(params.max_vel_xy, F32Mul(env.speed_xy, F32_0_01)) THEN 5
    ELSE IF F32Lt(F32Zero, params.max_vel_z)
            /\ F32Lt(params.max_vel_z, F32Mul(F32Abs(env.velocity_z), F32_0_01)) THEN 6
    ELSE LET first == IF st.first_activate_ms = 0 THEN t ELSE st.first_activate_ms
         IN  IF MillisSub(t, first) < ActivateDelayMs THEN 7 ELSE 8

\* should_weathervane without the reset() of the ground speed check: C7
\* rests on every disqualification calling reset()
should_weathervane_NoResetOnSpeed(st, pilot_yaw, env, t) ==
    LET step == GateStep(st, pilot_yaw, env, t) IN
    IF step = 2
    THEN [ret |-> FALSE, step |-> step,
          st |-> reset([st EXCEPT !.last_pilot_input_ms = t])]
    ELSE IF step = 5
    THEN [ret |-> FALSE, step |-> step, st |-> st]
    ELSE IF step <= 6
    THEN [ret |-> FALSE, step |-> step, st |-> reset(st)]
    ELSE [ret |-> step = 8, step |-> step,
          st |-> IF st.first_activate_ms = 0
                 THEN [st EXCEPT !.first_activate_ms = t] ELSE st]

\* should_weathervane with a reset() in the 2 second buffer: C15 rests on the
\* buffer leaving the fields alone
should_weathervane_ResetInBuffer(st, pilot_yaw, env, t) ==
    LET step == GateStep(st, pilot_yaw, env, t) IN
    IF step = 2
    THEN [ret |-> FALSE, step |-> step,
          st |-> reset([st EXCEPT !.last_pilot_input_ms = t])]
    ELSE IF step <= 6
    THEN [ret |-> FALSE, step |-> step, st |-> reset(st)]
    ELSE IF step = 7
    THEN [ret |-> FALSE, step |-> step,
          st |-> [reset(st) EXCEPT !.first_activate_ms =
                      IF st.first_activate_ms = 0 THEN t ELSE st.first_activate_ms]]
    ELSE [ret |-> TRUE, step |-> step, st |-> st]

\* should_weathervane latching the end of the 2 second buffer instead of its
\* start: C16 rests on the latch being the time of the evaluation
should_weathervane_LatchDeadline(st, pilot_yaw, env, t) ==
    LET step == GateStep(st, pilot_yaw, env, t) IN
    IF step = 2
    THEN [ret |-> FALSE, step |-> step,
          st |-> reset([st EXCEPT !.last_pilot_input_ms = t])]
    ELSE IF step <= 6
    THEN [ret |-> FALSE, step |-> step, st |-> reset(st)]
    ELSE [ret |-> step = 8, step |-> step,
          st |-> IF st.first_activate_ms = 0
                 THEN [st EXCEPT !.first_activate_ms =
                          (t + ActivateDelayMs) % MillisWrap]
                 ELSE st]

\* should_weathervane recording the pilot's input before the check of the
\* direction: C19 rests on the order of the two
should_weathervane_PilotBeforeOff(st, pilot_yaw, env, t) ==
    LET step == GateStep(st, pilot_yaw, env, t)
        seen == IF pilot_yaw # 0 THEN [st EXCEPT !.last_pilot_input_ms = t] ELSE st
    IN
    IF step <= 6
    THEN [ret |-> FALSE, step |-> step, st |-> reset(seen)]
    ELSE [ret |-> step = 8, step |-> step,
          st |-> IF st.first_activate_ms = 0
                 THEN [st EXCEPT !.first_activate_ms = t] ELSE st]

\* should_weathervane: [ret, step, st] the result, the condition that ended
\* the call and the fields after the call
should_weathervane(st, pilot_yaw, env, t) ==
    LET step == GateStep(st, pilot_yaw, env, t) IN
    IF step = 2
    THEN [ret |-> FALSE, step |-> step,
          st |-> reset([st EXCEPT !.last_pilot_input_ms = t])]
    ELSE IF step <= 6
    THEN [ret |-> FALSE, step |-> step, st |-> reset(st)]
    ELSE [ret |-> step = 8, step |-> step,
          st |-> IF st.first_activate_ms = 0
                 THEN [st EXCEPT !.first_activate_ms = t] ELSE st]

\* the switch with a NOSE_IN case that leaves the pitch out: C18 rests on
\* each case of the switch
DirectionOutput_NoPitchTerm(roll_cdeg, pitch_cdeg) ==
    LET roll  == F32FromInt(roll_cdeg)
        pitch == F32FromInt(pitch_cdeg)
    IN  CASE get_direction = NOSE_OR_TAIL_IN ->
               LET out == F32Mul(roll, params.gain)
               IN  IF pitch_cdeg > 0 THEN F32Neg(out) ELSE out
          [] get_direction = NOSE_IN ->
               LET out == F32Mul(F32Abs(roll), params.gain)
               IN  IF roll_cdeg < 0 THEN F32Neg(out) ELSE out
          [] get_direction = SIDE_IN ->
               LET out == F32Mul(pitch, params.gain)
               IN  IF roll_cdeg < 0 THEN F32Neg(out) ELSE out
          [] OTHER -> F32Zero

\* the switch on get_direction() of get_yaw_rate_cds
DirectionOutput(roll_cdeg, pitch_cdeg) ==
    LET roll  == F32FromInt(roll_cdeg)
        pitch == F32FromInt(pitch_cdeg)
    IN  CASE get_direction = NOSE_OR_TAIL_IN ->
               LET out == F32Mul(roll, params.gain)
               IN  IF pitch_cdeg > 0 THEN F32Neg(out) ELSE out
          [] get_direction = NOSE_IN ->
               LET out == F32Mul(F32Add(F32Abs(roll),
                                        IF F32Lt(F32Zero, pitch) THEN pitch ELSE F32Zero),
                                 params.gain)
               IN  IF roll_cdeg < 0 THEN F32Neg(out) ELSE out
          [] get_direction = SIDE_IN ->
               LET out == F32Mul(pitch, params.gain)
               IN  IF roll_cdeg < 0 THEN F32Neg(out) ELSE out
          [] OTHER -> F32Zero

\* the deadzone without the exception of NOSE_IN: C11 rests on it
InDeadzone_NoException(roll_cdeg, pitch_cdeg) ==
    LET angle == F32FromInt(IF get_direction = SIDE_IN THEN pitch_cdeg ELSE roll_cdeg)
        dz    == F32Mul(params.min_dz_ang_deg, F32_100)
    IN  F32Lt(F32Abs(angle), dz)

\* "Don't activatively weather vane if less than deadzone angle"
InDeadzone(roll_cdeg, pitch_cdeg) ==
    LET angle == F32FromInt(IF get_direction = SIDE_IN THEN pitch_cdeg ELSE roll_cdeg)
        dz    == F32Mul(params.min_dz_ang_deg, F32_100)
    IN  F32Lt(F32Abs(angle), dz)
        /\ ~(F32Lt(dz, F32FromInt(pitch_cdeg)) /\ get_direction = NOSE_IN)

\* output before the relax override and the slew
RawDemand(roll_cdeg, pitch_cdeg) ==
    IF InDeadzone(roll_cdeg, pitch_cdeg) THEN F32Zero
    ELSE DirectionOutput(roll_cdeg, pitch_cdeg)

\* "Slew output"
Slew(last, output) == F32Add(F32Mul(F32_0_98, last), F32Mul(F32_0_02, output))

\* get_yaw_rate_cds without "output = 0.0f" in the relaxed case: C12 rests
\* on it
get_yaw_rate_cds_RelaxKeepsDemand(st, roll_cdeg, pitch_cdeg) ==
    LET notice == ~st.active_msg_sent
        st1    == [st EXCEPT !.active_msg_sent = TRUE]
    IN  IF get_direction = OFF
        THEN [ret |-> F32Zero, notice |-> notice, st |-> st1]
        ELSE LET out == Slew(st1.last_output, RawDemand(roll_cdeg, pitch_cdeg))
             IN  [ret |-> out, notice |-> notice,
                  st |-> [st1 EXCEPT !.should_relax = FALSE, !.last_output = out]]

\* get_yaw_rate_cds without "should_relax = false": C4 rests on it
get_yaw_rate_cds_KeepsRelax(st, roll_cdeg, pitch_cdeg) ==
    LET notice == ~st.active_msg_sent
        st1    == [st EXCEPT !.active_msg_sent = TRUE]
    IN  IF get_direction = OFF
        THEN [ret |-> F32Zero, notice |-> notice, st |-> st1]
        ELSE LET output == IF st1.should_relax THEN F32Zero
                           ELSE RawDemand(roll_cdeg, pitch_cdeg)
                 out    == Slew(st1.last_output, output)
             IN  [ret |-> out, notice |-> notice,
                  st |-> [st1 EXCEPT !.last_output = out]]

\* get_yaw_rate_cds without "active_msg_sent = true": C9 rests on it
get_yaw_rate_cds_KeepsNotice(st, roll_cdeg, pitch_cdeg) ==
    LET notice == ~st.active_msg_sent
    IN  IF get_direction = OFF
        THEN [ret |-> F32Zero, notice |-> notice, st |-> st]
        ELSE LET output == IF st.should_relax THEN F32Zero
                           ELSE RawDemand(roll_cdeg, pitch_cdeg)
                 out    == Slew(st.last_output, output)
             IN  [ret |-> out, notice |-> notice,
                  st |-> [st EXCEPT !.should_relax = FALSE, !.last_output = out]]

\* get_yaw_rate_cds: [ret, notice, st] the result, whether "Weathervane
\* Active" was sent, and the fields after the call
get_yaw_rate_cds(st, roll_cdeg, pitch_cdeg) ==
    LET notice == ~st.active_msg_sent
        st1    == [st EXCEPT !.active_msg_sent = TRUE]
    IN  IF get_direction = OFF
        THEN [ret |-> F32Zero, notice |-> notice, st |-> st1]
        ELSE LET output == IF st1.should_relax THEN F32Zero
                           ELSE RawDemand(roll_cdeg, pitch_cdeg)
                 out    == Slew(st1.last_output, output)
             IN  [ret |-> out, notice |-> notice,
                  st |-> [st1 EXCEPT !.should_relax = FALSE, !.last_output = out]]

\* the per-cycle entry point of the flight mode (section 6 of the
\* specification): the yaw rate of get_yaw_rate_cds when the gate allows,
\* 0 otherwise
compute(st, pilot_yaw, roll_cdeg, pitch_cdeg, env, t) ==
    Only({IF g.ret
          THEN Only({[gate |-> TRUE, step |-> g.step, ret |-> y.ret,
                      notice |-> y.notice, st |-> y.st] :
                     y \in {get_yaw_rate_cds(g.st, roll_cdeg, pitch_cdeg)}})
          ELSE [gate |-> FALSE, step |-> g.step, ret |-> F32Zero,
                notice |-> FALSE, st |-> g.st] :
          g \in {should_weathervane(st, pilot_yaw, env, t)}})

----------------------------------------------------------------------------
(* operations *)

\* the record of the last operation; relaxed and slewed: should_relax was set
\* and last_output was not 0 when a cycle or a reset began; gap: the length
\* of a pause
NoCall(op) == [op |-> op, step |-> 0, gate |-> FALSE,
               yaw |-> F32Zero, notice |-> FALSE, gap |-> 0,
               relaxed |-> FALSE, slewed |-> FALSE]

\* the values the counter takes
Millis == {k * StepMs : k \in 0..(WrapSteps - 1)}

\* AC_WeatherVane::AC_WeatherVane: reset() leaves last_pilot_input_ms as it
\* finds it, and nothing else initializes it
Init ==
    /\ now = 0
    /\ _direction \in Directions
    /\ params = DefaultParams
    /\ last_pilot_input_ms \in Millis
    /\ last_output = F32Zero
    /\ should_relax = FALSE
    /\ active_msg_sent = FALSE
    /\ first_activate_ms = 0
    /\ call = NoCall("construct")
    /\ cycles = 0
    /\ pilot_age = PilotInputHoldMs
    /\ pass_age = -1

Store(st) ==
    /\ last_pilot_input_ms' = st.last_pilot_input_ms
    /\ last_output' = st.last_output
    /\ should_relax' = st.should_relax
    /\ active_msg_sent' = st.active_msg_sent
    /\ first_activate_ms' = st.first_activate_ms

Age(a, ms, cap) == IF a = -1 THEN -1 ELSE Min(a + ms, cap)

\* the counter advances by k steps while no operation is called
Tick(k) ==
    /\ now' = (now + k * StepMs) % MillisWrap
    /\ pilot_age' = Age(pilot_age, k * StepMs, PilotInputHoldMs)
    /\ pass_age' = Age(pass_age, k * StepMs, ActivateDelayMs)
    /\ call' = [NoCall("tick") EXCEPT !.gap = k * StepMs]
    /\ UNCHANGED <<_direction, params, last_pilot_input_ms, last_output,
                   should_relax, active_msg_sent, first_activate_ms, cycles>>

\* the ENABLE parameter is changed between two cycles
SetDirection(d) ==
    /\ d # _direction
    /\ _direction' = d
    /\ call' = NoCall("set_direction")
    /\ UNCHANGED <<now, params, last_pilot_input_ms, last_output, should_relax,
                   active_msg_sent, first_activate_ms, cycles, pilot_age,
                   pass_age>>

\* set_relax(relax)
set_relax(relax) ==
    /\ should_relax' = relax
    /\ call' = NoCall("set_relax")
    /\ UNCHANGED <<now, _direction, params, last_pilot_input_ms, last_output,
                   active_msg_sent, first_activate_ms, cycles, pilot_age,
                   pass_age>>

\* reset() called by the flight mode
Reset ==
    /\ Store(reset(Self))
    /\ cycles' = 0
    /\ pass_age' = -1
    /\ call' = [NoCall("reset") EXCEPT !.relaxed = should_relax,
                                       !.slewed = last_output # F32Zero]
    /\ UNCHANGED <<now, _direction, params, pilot_age>>

\* one cycle: should_weathervane, then get_yaw_rate_cds when it allows, as
\* long as fewer than max cycles were allowed since the last reset
CycleUpTo(max, pilot_yaw, roll_cdeg, pitch_cdeg, env) ==
    \E c \in {compute(Self, pilot_yaw, roll_cdeg, pitch_cdeg, env, now)} :
    /\ c.gate => cycles < max
    /\ Store(c.st)
    /\ cycles' = IF c.gate THEN cycles + 1 ELSE IF c.step <= 6 THEN 0 ELSE cycles
    /\ pilot_age' = IF _direction # OFF /\ pilot_yaw # 0 THEN 0 ELSE pilot_age
    /\ pass_age' = IF c.step >= 7 THEN (IF pass_age = -1 THEN 0 ELSE pass_age) ELSE -1
    /\ call' = [op |-> "compute", step |-> c.step, gate |-> c.gate, yaw |-> c.ret,
                notice |-> c.notice, gap |-> 0,
                relaxed |-> should_relax, slewed |-> last_output # F32Zero]
    /\ UNCHANGED <<now, _direction, params>>

Cycle(pilot_yaw, roll_cdeg, pitch_cdeg, env) ==
    CycleUpTo(MaxCycles, pilot_yaw, roll_cdeg, pitch_cdeg, env)

\* get_yaw_rate_cds(roll_cdeg, pitch_cdeg) called on its own; prev is
\* last_output before the call
Demand(roll_cdeg, pitch_cdeg) ==
    \E y \in {get_yaw_rate_cds(Self, roll_cdeg, pitch_cdeg)} :
    /\ cycles < MaxDemandCalls
    /\ Store(y.st)
    /\ cycles' = cycles + 1
    /\ call' = [op |-> "get_yaw_rate_cds", roll |-> roll_cdeg, pitch |-> pitch_cdeg,
                prev |-> last_output, yaw |-> y.ret, notice |-> y.notice,
                relaxed |-> should_relax]
    /\ UNCHANGED <<now, _direction, params, pilot_age, pass_age>>

\* should_weathervane(pilot_yaw, ...) called on its own
Gate(pilot_yaw, env) ==
    \E g \in {should_weathervane(Self, pilot_yaw, env, now)} :
    /\ Store(g.st)
    /\ cycles' = IF g.step <= 6 THEN 0 ELSE cycles
    /\ pilot_age' = IF _direction # OFF /\ pilot_yaw # 0 THEN 0 ELSE pilot_age
    /\ pass_age' = IF g.step >= 7 THEN (IF pass_age = -1 THEN 0 ELSE pass_age) ELSE -1
    /\ call' = [op |-> "should_weathervane", step |-> g.step, gate |-> g.ret,
                pilot |-> pilot_yaw, env |-> env]
    /\ UNCHANGED <<now, _direction, params>>

Next ==
    \/ \E k \in {1, MaxPauseSteps} : Tick(k)
    \/ \E d \in Directions : SetDirection(d)
    \/ \E relax \in BOOLEAN : set_relax(relax)
    \/ Reset
    \/ \E pilot_yaw \in PilotInputs, roll_cdeg \in RollInputs,
          pitch_cdeg \in PitchInputs, env \in EnvInputs :
          Cycle(pilot_yaw, roll_cdeg, pitch_cdeg, env)

Spec == Init /\ [][Next]_vars

\* one activation followed through its slew: the direction stays
\* NOSE_OR_TAIL_IN and the attitude stays the same; the counter advances until
\* the gate allows the first cycle, and its advance during the slew, which
\* changes nothing the slew reads, is left out
InitSlew == Init /\ _direction = NOSE_OR_TAIL_IN

NextSlew ==
    \/ cycles = 0 /\ Tick(1)
    \/ \E roll_cdeg \in SlewRollInputs, pitch_cdeg \in SlewPitchInputs,
          env \in SlewEnvInputs :
          CycleUpTo(MaxSlewCycles, 0, roll_cdeg, pitch_cdeg, env)

SpecSlew == InitSlew /\ [][NextSlew]_vars

\* the demand and the filter on their own, for every direction and for the
\* parameters of DemandParamChoices
InitDemand ==
    /\ now = 0
    /\ _direction \in Directions
    /\ params \in {DemandParams(p) : p \in DemandParamChoices}
    /\ last_pilot_input_ms = 0
    /\ last_output = F32Zero
    /\ should_relax = FALSE
    /\ active_msg_sent = FALSE
    /\ first_activate_ms = 0
    /\ call = NoCall("construct")
    /\ cycles = 0
    /\ pilot_age = PilotInputHoldMs
    /\ pass_age = -1

NextDemand ==
    \/ \E d \in Directions : SetDirection(d)
    \/ \E roll_cdeg \in DemandRollInputs, pitch_cdeg \in DemandPitchInputs :
          Demand(roll_cdeg, pitch_cdeg)

SpecDemand == InitDemand /\ [][NextDemand]_vars

\* the gate on its own, for the parameters of GateParamChoices
InitGate ==
    /\ now = 0
    /\ _direction \in {OFF, NOSE_IN}
    /\ params \in GateParamChoices
    /\ last_pilot_input_ms \in Millis
    /\ last_output = F32Zero
    /\ should_relax = FALSE
    /\ active_msg_sent = FALSE
    /\ first_activate_ms = 0
    /\ call = NoCall("construct")
    /\ cycles = 0
    /\ pilot_age = PilotInputHoldMs
    /\ pass_age = -1

NextGate ==
    \/ Tick(1)
    \/ \E pilot_yaw \in PilotInputs, env \in GateEnvInputs : Gate(pilot_yaw, env)

SpecGate == InitGate /\ [][NextGate]_vars

----------------------------------------------------------------------------
(* claims *)

\* the baseline of the controller: what reset() establishes
Baseline(st) ==
    /\ st.last_output = F32Zero
    /\ st.should_relax = FALSE
    /\ st.active_msg_sent = FALSE
    /\ st.first_activate_ms = 0

\* C1: whenever the configured direction is OFF, whatever the pilot input,
\* roll, pitch, time and controller state are, should_weathervane returns
\* false and leaves the state reset, and the cycle (and get_yaw_rate_cds
\* itself) returns a yaw rate of exactly 0.
C1_OffIsZero ==
    _direction = OFF =>
        /\ call.op = "compute" =>
              /\ call.gate = FALSE
              /\ call.yaw = F32Zero
              /\ Baseline(Self)
        /\ \A roll_cdeg \in RollInputs, pitch_cdeg \in PitchInputs :
              get_yaw_rate_cds(Self, roll_cdeg, pitch_cdeg).ret = F32Zero

\* a cycle with direction OFF ran on a controller that was slewing and relaxed
C1_Witness ==
    /\ call.op = "compute" /\ _direction = OFF /\ call.step = 1
    /\ call.slewed /\ call.relaxed
    /\ ~call.gate /\ call.yaw = F32Zero /\ Baseline(Self)

\* C2: a gate evaluation that sees pilot_yaw != 0 (the direction is not OFF, so
\* the evaluation reaches the pilot check) resets the state to the baseline,
\* and every gate evaluation less than 3000 ms after it returns false and
\* leaves the state at the baseline, whatever the pilot input and the other
\* conditions are then.
C2_PilotOverride ==
    (call.op = "compute" /\ pilot_age < PilotInputHoldMs)
        => (call.gate = FALSE /\ Baseline(Self))

\* a cycle with no pilot input and every other condition met was refused
\* 2000 ms after the pilot's input
C2_Witness ==
    /\ call.op = "compute" /\ call.step = 3 /\ ~call.gate
    /\ pilot_age = PilotInputHoldMs - StepMs
    /\ Baseline(Self)

\* C3: from the first gate evaluation at which conditions 1-6 pass, and while
\* they pass on every evaluation, the gate returns false on every evaluation
\* less than 2000 ms after that first one and true on every evaluation
\* 2000 ms or more after it.
C3_SettleDelay ==
    (call.op = "compute" /\ call.step >= 7) =>
        (call.gate <=> pass_age >= ActivateDelayMs)

C5_RelaxNotSticky ==
    (call.op = "compute" /\ call.relaxed) => should_relax = FALSE

\* C6: when more than 5000 ms passed since the last invocation, the state is
\* reset before the cycle is evaluated, so that a nonzero last_output slewed
\* before the gap does not enter the output of the cycle: the cycle finds the
\* 2 second buffer restarted and returns 0.
C6_Watchdog ==
    [][(/\ call.op = "tick" /\ call.gap > WatchdogGapMs
        /\ last_output # F32Zero
        /\ call'.op = "compute")
         => call'.yaw = F32Zero]_vars

\* C7: every cycle in which the gate returns false returns a yaw rate of 0,
\* and when one of the disqualifications 1-6 made it return false the state
\* after the cycle is the baseline.
C7_RefusedIsZero ==
    (call.op = "compute" /\ call.gate = FALSE) =>
        /\ call.yaw = F32Zero
        /\ call.step \in 1..7
        /\ call.step \in 1..6 => Baseline(Self)

\* a cycle refused for its ground speed reset a controller that was slewing
C7_Witness ==
    /\ call.op = "compute" /\ call.step = 5 /\ call.slewed
    /\ ~call.gate /\ call.yaw = F32Zero /\ Baseline(Self)

\* C8: reset from any reachable state yields the baseline, and a second reset
\* changes nothing.
C8_ResetIdempotent ==
    /\ Baseline(reset(Self))
    /\ reset(reset(Self)) = reset(Self)
    /\ call.op = "reset" => Baseline(Self)

\* reset() ran on a controller that was slewing with should_relax set
C8_Witness ==
    /\ call.op = "reset" /\ call.slewed /\ call.relaxed /\ Baseline(Self)

\* C9: "Weathervane Active" is sent on a cycle exactly when the gate allows it
\* and no earlier cycle was allowed since the last reset; it is never sent on
\* a cycle in which the gate returns false.
C9_NoticeOnce ==
    call.op = "compute" => (call.notice <=> (call.gate /\ cycles = 1))

\* the second allowed cycle of an activation sent no notice
C9_Witness ==
    /\ call.op = "compute" /\ call.gate /\ ~call.notice /\ cycles = 2
    /\ active_msg_sent

\* C10: from last_output = 0, with a constant raw demand D on consecutive
\* allowed cycles, each cycle sets last_output to 0.98 * last_output + 0.02 * D,
\* never moves it away from D, and never takes it past D: the output has the
\* sign of D and a magnitude of at most |D|.
C10_SlewConverges ==
    [][\A roll_cdeg \in SlewRollInputs, pitch_cdeg \in SlewPitchInputs :
         LET D == RawDemand(roll_cdeg, pitch_cdeg) IN
         cycles' = cycles + 1 =>
            /\ last_output' = Slew(last_output, D)
            /\ call'.yaw = last_output'
            /\ ~F32MagLt(last_output', last_output)
            /\ last_output'.s = D.s
            /\ ~F32MagLt(D, last_output')]_vars

\* the choice of DemandParamChoices the parameters were made of
DemandChoice == CHOOSE p \in DemandParamChoices : params = DemandParams(p)

Abs(i) == IF i < 0 THEN -i ELSE i

\* n / 4 as a float
F32Quarters(n) == F32Round(IF n < 0 THEN 1 ELSE 0, -2, Abs(n), FALSE)

\* the deadzone as section 4.3 of the specification states it, in
\* centidegrees: |reference angle| < min_deadzone_angle, and not NOSE_IN
\* with pitch > min_deadzone_angle
DeadzoneForces(roll_cdeg, pitch_cdeg) ==
    LET dz  == 50 * DemandChoice.dz_half
        ref == IF _direction = SIDE_IN THEN pitch_cdeg ELSE roll_cdeg
    IN  Abs(ref) < dz /\ ~(_direction = NOSE_IN /\ pitch_cdeg > dz)

\* C11: a call of get_yaw_rate_cds slews a raw demand of 0 exactly when
\* |reference angle| < min_deadzone_angle (the reference angle is the pitch
\* for SIDE_IN, the roll otherwise) and not (NOSE_IN and pitch >
\* min_deadzone_angle), and slews the demand of the direction otherwise; with
\* NOSE_IN that demand is not 0 outside a deadzone of more than 0.
C11_Deadzone ==
    (call.op = "get_yaw_rate_cds" /\ _direction # OFF /\ ~call.relaxed) =>
        LET forced == DeadzoneForces(call.roll, call.pitch)
            demand == DirectionOutput(call.roll, call.pitch)
        IN  /\ call.yaw = Slew(call.prev, IF forced THEN F32Zero ELSE demand)
            /\ (_direction = NOSE_IN /\ ~forced /\ DemandChoice.dz_half > 0)
                   => demand # F32Zero

\* NOSE_IN with ANG_MIN 1: a roll of -0.99 degrees, level in pitch, slewed a
\* demand of 0 into an output that was not 0
C11_Witness ==
    /\ call.op = "get_yaw_rate_cds" /\ _direction = NOSE_IN
    /\ DemandChoice.dz_half = 2 /\ call.roll = -99 /\ call.pitch = 0
    /\ call.prev # F32Zero /\ call.yaw = Slew(call.prev, F32Zero)

\* the raw demand of section 4.2 of the specification, in quarters
DemandQuarters(roll_cdeg, pitch_cdeg) ==
    LET g == DemandChoice.gain_q IN
    CASE _direction = NOSE_OR_TAIL_IN ->
           IF pitch_cdeg > 0 THEN -(roll_cdeg * g) ELSE roll_cdeg * g
      [] _direction = NOSE_IN ->
           LET n == (Abs(roll_cdeg) + (IF pitch_cdeg > 0 THEN pitch_cdeg ELSE 0)) * g
           IN  IF roll_cdeg < 0 THEN -n ELSE n
      [] _direction = SIDE_IN ->
           IF roll_cdeg < 0 THEN -(pitch_cdeg * g) ELSE pitch_cdeg * g
      [] OTHER -> 0

\* C18: the demand of the switch is roll * gain, negated when pitch > 0, for
\* NOSE_OR_TAIL_IN; (|roll| + max(pitch, 0)) * gain, negative when roll < 0,
\* for NOSE_IN; pitch * gain, negated when roll < 0, for SIDE_IN; outside the
\* deadzone it is the demand the call slews; with OFF the call returns 0 and
\* leaves last_output unchanged.
C18_RawDemand ==
    (call.op = "get_yaw_rate_cds" /\ ~call.relaxed) =>
        IF _direction = OFF
        THEN call.yaw = F32Zero /\ last_output = call.prev
        ELSE LET demand == F32Quarters(DemandQuarters(call.roll, call.pitch)) IN
             /\ DirectionOutput(call.roll, call.pitch) = demand
             /\ ~DeadzoneForces(call.roll, call.pitch)
                   => (call.yaw = Slew(call.prev, demand) /\ last_output = call.yaw)

\* a call with direction OFF returned 0 and left a last_output that was not 0
C18_Witness ==
    /\ call.op = "get_yaw_rate_cds" /\ _direction = OFF
    /\ call.prev # F32Zero /\ call.yaw = F32Zero /\ last_output = call.prev

\* C12: last_output is 0 after every reset, and it leaves 0 only in a cycle
\* that the gate allows, that is not relaxed, and whose raw demand after the
\* deadzone is not 0: cycles in the 2 second buffer, refused cycles and
\* relaxed cycles leave it 0.
C12_ZeroUntilDemand ==
    [][/\ call'.op = "reset" => last_output' = F32Zero
       /\ (last_output = F32Zero /\ last_output' # F32Zero) =>
             /\ call'.op = "compute" /\ call'.gate /\ ~call'.relaxed
             /\ \E roll_cdeg \in RollInputs, pitch_cdeg \in PitchInputs :
                   /\ RawDemand(roll_cdeg, pitch_cdeg) # F32Zero
                   /\ last_output' = Slew(F32Zero, RawDemand(roll_cdeg, pitch_cdeg))]_vars

\* an allowed, relaxed cycle ran on a last_output of 0 and left it 0
C12_Witness ==
    /\ call.op = "compute" /\ call.gate /\ call.relaxed /\ ~call.slewed
    /\ last_output = F32Zero

\* the height section 4.1 of the specification compares with min_height: the
\* height above terrain when the terrain service is available and enabled,
\* the height above the takeoff reference otherwise
ApplicableHeightBelow(env) ==
    IF env.terrain_ok
    THEN F32Lt(env.terr_height, F32FromInt(params.min_height))
    ELSE F32Lt(env.altitude, F32FromInt(100 * params.min_height))

\* C13: with min_height > 0 the gate returns false and resets whenever the
\* applicable height is below min_height, and the height disqualifies in no
\* other case: never when min_height is 0.
C13_HeightGate ==
    call.op = "should_weathervane" =>
        LET below == params.min_height > 0 /\ ApplicableHeightBelow(call.env)
        IN  /\ below => (call.gate = FALSE /\ call.step <= 4 /\ Baseline(Self))
            /\ call.step = 4 => below

\* the ground speed, and the magnitude of the climb rate, is above its ceiling
SpeedXYExceeds(env) ==
    /\ F32Lt(F32Zero, params.max_vel_xy)
    /\ F32Lt(F32Mul(params.max_vel_xy, F32_100), env.speed_xy)

SpeedZExceeds(env) ==
    /\ F32Lt(F32Zero, params.max_vel_z)
    /\ F32Lt(F32Mul(params.max_vel_z, F32_100), F32Abs(env.velocity_z))

\* C14: the gate returns false and resets whenever a ceiling above 0 is
\* exceeded by the ground speed or by the magnitude of the climb or descent
\* rate, and a speed disqualifies in no other case: not with a ceiling of 0,
\* not when it equals the ceiling.
C14_SpeedGates ==
    call.op = "should_weathervane" =>
        /\ (SpeedXYExceeds(call.env) \/ SpeedZExceeds(call.env))
              => (call.gate = FALSE /\ call.step <= 6 /\ Baseline(Self))
        /\ call.step = 5 => SpeedXYExceeds(call.env)
        /\ call.step = 6 => SpeedZExceeds(call.env)
\* C15: a gate evaluation that passes conditions 1-6 inside the 2 second
\* buffer returns false and does not reset: last_output, should_relax,
\* active_msg_sent and last_pilot_input_ms are as before it, and
\* first_activate_ms changes only when it was 0, to the time of the
\* evaluation.
C15_BufferKeepsState ==
    [][(call'.op = "compute" /\ call'.step = 7) =>
          /\ call'.gate = FALSE
          /\ last_output' = last_output
          /\ should_relax' = should_relax
          /\ active_msg_sent' = active_msg_sent
          /\ last_pilot_input_ms' = last_pilot_input_ms
          /\ first_activate_ms' =
                 IF first_activate_ms = 0 THEN now ELSE first_activate_ms]_vars

\* an evaluation inside the 2 second buffer left should_relax set and the
\* latch of an earlier evaluation in place
C15_Witness ==
    /\ call.op = "compute" /\ call.step = 7 /\ ~call.gate
    /\ call.relaxed /\ should_relax
    /\ first_activate_ms # 0 /\ first_activate_ms # now

\* C16: first_activate_ms is 0 or the time of an earlier or the current gate
\* evaluation: an operation leaves it, clears it, or (a gate evaluation only)
\* sets it to the time of the evaluation; it is 0 after every reset, that of
\* a disqualification included, and not 0 whenever the gate returns true.
C16_LatchIsEvaluationTime ==
    [][/\ \/ first_activate_ms' = first_activate_ms
          \/ first_activate_ms' = 0
          \/ call'.op = "compute" /\ call'.step >= 7 /\ first_activate_ms' = now'
       /\ call'.op = "reset" => first_activate_ms' = 0
       /\ (call'.op = "compute" /\ call'.step <= 6) => first_activate_ms' = 0
       /\ (call'.op = "compute" /\ call'.gate) => first_activate_ms' # 0]_vars

\* the gate returned true on a latch taken at an earlier evaluation
C16_Witness ==
    /\ call.op = "compute" /\ call.gate
    /\ first_activate_ms # 0 /\ first_activate_ms # now

\* C17: while an interval runs (less than 3000 ms since the pilot's input,
\* less than 2000 ms since conditions 1-6 began to pass) the time the code
\* measures, in the counter's unsigned arithmetic, is the time that passed,
\* whether the counter wrapped since or not and whatever its value was when
\* the interval began, 0 included; the gate is false throughout.
C17_WrapSafe ==
    /\ pilot_age < PilotInputHoldMs
          => MillisSub(now, last_pilot_input_ms) = pilot_age
    /\ (call.op = "compute" /\ pilot_age < PilotInputHoldMs) => ~call.gate
    /\ (call.op = "compute" /\ call.step >= 7 /\ pass_age < ActivateDelayMs)
          => /\ ~call.gate
             /\ MillisSub(now, first_activate_ms) = pass_age

\* C19: last_pilot_input_ms is written only by a gate evaluation with a
\* direction other than OFF and a pilot input other than 0, which sets it to
\* the time of the evaluation; reset, set_relax, get_yaw_rate_cds and every
\* other gate evaluation, one with direction OFF and pilot input included,
\* leave it unchanged.
C19_PilotTimeWrites ==
    [][/\ last_pilot_input_ms' # last_pilot_input_ms
             => (call'.op = "compute" /\ call'.step = 2 /\ pilot_age' = 0)
       /\ (call'.op = "compute" /\ (call'.step = 2 \/ pilot_age' = 0))
             => last_pilot_input_ms' = now'
       /\ (call'.op = "compute" /\ call'.step = 1)
             => last_pilot_input_ms' = last_pilot_input_ms]_vars

\* a gate evaluation recorded the pilot's input at a time other than the one
\* the field held at construction
C19_Witness ==
    /\ call.op = "compute" /\ call.step = 2 /\ pilot_age = 0
    /\ last_pilot_input_ms = now /\ now # 0

\* C20: the magnitude of last_output never exceeds the largest magnitude of
\* the raw demands slewed since the last reset (here each cycle slews the
\* same raw demand).
C20_OutputBound ==
    \A roll_cdeg \in SlewRollInputs, pitch_cdeg \in SlewPitchInputs :
        ~F32MagLt(RawDemand(roll_cdeg, pitch_cdeg), last_output)

====
